---- MODULE Spec2Model ----
(***************************************************************************)
(* Business Email & Social Media Extractor v2.0                            *)
(* (src/business_email_extractor.py, class BusinessContactExtractor).      *)
(*                                                                         *)
(* Python strings are TLA+ strings; a character is a string of length 1.   *)
(* Optional / raising results are records [kind, val]:                     *)
(*   kind = "value"  the call returned val                                 *)
(*   kind = "none"   the call returned None                                *)
(*   kind = "raise"  the call raised the exception named val               *)
(***************************************************************************)
EXTENDS Naturals, Sequences, FiniteSets, TLC

VARIABLES
    \* a single call of one of the pure methods
    fn,             \* the method called ("" while process_csv runs)
    arg,            \* its argument
    ret,            \* its result once called
    called,         \* whether it has been called
    \* the outside world
    site,           \* what the site serves for each of the four pages; <<>>: anything
    trace,          \* the requests.get and time.sleep calls made, in order
    written,        \* the contents written to the output file, in order
    log,            \* the lines logged by the save block of process_csv
    \* process_csv
    pc,             \* where process_csv stands
    total,          \* len(df)
    rows,           \* the rows of df iterated so far
    results,        \* results
    results_sorted, \* results_sorted
    \* extract_contacts, for the row at hand
    base_url,       \* base_url
    path_i,         \* the position in pages_to_check
    htmls,          \* what fetch_page_content returned for each page so far
    all_emails,     \* all_emails
    social_link,    \* social_link
    \* a second run of the program on the same rows and the same site
    run,            \* 1 or 2
    first           \* the rows and the results of the first run

fvars == <<fn, arg, ret, called>>
world == <<site, trace, written, log>>
batch == <<pc, total, rows, results, results_sorted>>
locals == <<base_url, path_i, htmls, all_emails, social_link>>
runs == <<run, first>>
vars == <<fvars, world, batch, locals, runs>>

None == [kind |-> "none", val |-> ""]
Ret(v) == [kind |-> "value", val |-> v]
Raise(e) == [kind |-> "raise", val |-> e]

\* process_csv is not running: the state of a call of a single method
NotRunning ==
    /\ site = <<>> /\ trace = <<>> /\ written = <<>> /\ log = <<>>
    /\ pc = "idle" /\ total = 0 /\ rows = <<>> /\ results = <<>> /\ results_sorted = <<>>
    /\ base_url = "" /\ path_i = 0 /\ htmls = <<>> /\ all_emails = {} /\ social_link = ""
    /\ run = 1 /\ first = <<>>

----------------------------------------------------------------------------
(* Python str methods *)

UpperChars == "ABCDEFGHIJKLMNOPQRSTUVWXYZ"
LowerChars == "abcdefghijklmnopqrstuvwxyz"
DigitChars == "0123456789"

Char(s, i) == SubSeq(s, i, i)

Contains(s, c) == \E i \in 1..Len(s) : Char(s, i) = c

IsSpace(c) == c \in {" ", "\t", "\n", "\r"}

RECURSIVE lstrip(_)
lstrip(s) ==
    IF Len(s) > 0 /\ IsSpace(Char(s, 1)) THEN lstrip(SubSeq(s, 2, Len(s))) ELSE s

RECURSIVE rstrip(_)
rstrip(s) ==
    IF Len(s) > 0 /\ IsSpace(Char(s, Len(s))) THEN rstrip(SubSeq(s, 1, Len(s) - 1)) ELSE s

strip(s) == rstrip(lstrip(s))

LowerChar(c) ==
    IF Contains(UpperChars, c)
    THEN Char(LowerChars, CHOOSE i \in 1..Len(UpperChars) : Char(UpperChars, i) = c)
    ELSE c

RECURSIVE lower(_)
lower(s) ==
    IF Len(s) = 0 THEN "" ELSE LowerChar(Char(s, 1)) \o lower(SubSeq(s, 2, Len(s)))

startswith(s, pre) == Len(s) >= Len(pre) /\ SubSeq(s, 1, Len(pre)) = pre

endswith(s, suf) == Len(s) >= Len(suf) /\ SubSeq(s, Len(s) - Len(suf) + 1, Len(s)) = suf

InList(x, list) == \E i \in 1..Len(list) : list[i] = x

----------------------------------------------------------------------------
(* clean_emails *)

\* the alternatives of file_extensions, r'\.(png|...)$': the entry ends in "." + one of them
file_extensions ==
    {"png", "jpg", "jpeg", "gif", "svg", "pdf", "htm", "html", "css", "js",
     "ico", "mp4", "mp3", "zip", "doc", "docx"}

\* the alternatives of test_patterns; a trailing ".*" matches anything, so each is a prefix
test_patterns ==
    {"xxx@xxx.com", "your@email.com", "test.com", "test@", "example@", "no-reply@", "noreply@"}

\* re.search(file_extensions, email)
HasFileExtension(email) == \E ext \in file_extensions : endswith(email, "." \o ext)

\* re.match(test_patterns, email): anchored at the start of the string only
IsTestEmail(email) == \E pat \in test_patterns : startswith(email, pat)

\* email = email.strip().lower()
Normalized(email) == lower(strip(email))

\* the three "continue" branches of the loop
Skipped(email) == email = "" \/ HasFileExtension(email) \/ IsTestEmail(email)

LimitReached_three(clean) == Len(clean) >= 3

\* if len(clean) >= 2: break
LimitReached(clean) == Len(clean) >= 2

\* the for loop from candidate i on, with the list collected so far
RECURSIVE CleanLoop(_, _, _)
CleanLoop(emails, i, clean) ==
    IF i > Len(emails) THEN clean
    ELSE LET email == Normalized(emails[i])
         IN  IF Skipped(email) THEN CleanLoop(emails, i + 1, clean)
             ELSE LET next == IF InList(email, clean) THEN clean ELSE Append(clean, email)
                  IN  IF LimitReached(next) THEN next
                      ELSE CleanLoop(emails, i + 1, next)

clean_emails(emails) == CleanLoop(emails, 1, <<>>)

----------------------------------------------------------------------------
(* Inputs of clean_emails: every list of at most MaxRawEmails raw strings. *)

MaxRawEmails == 3

RawEmails ==
    {"Info@Acme.com", " info@acme.com ", "sales@acme.com", "hr@acme.com",
     "logo@2x.PNG", "Test@acme.com", "  "}

RawEmailLists == UNION {[1..n -> RawEmails] : n \in 0..MaxRawEmails}

InitClean ==
    /\ fn = "clean_emails"
    /\ arg \in RawEmailLists
    /\ ret = <<>>
    /\ called = FALSE
    /\ NotRunning

CallClean ==
    /\ fn = "clean_emails"
    /\ ~called
    /\ ret' = clean_emails(arg)
    /\ called' = TRUE
    /\ UNCHANGED <<fn, arg, world, batch, locals, runs>>

SpecClean == InitClean /\ [][CallClean]_vars

\* C2: clean_emails returns at most 2 entries, each lowercase and trimmed, none
\* ending in an excluded file extension or starting with a placeholder pattern,
\* and no two entries equal, whatever the order of the candidates.
C2_CleanInvariant ==
    (fn = "clean_emails" /\ called) =>
        /\ Len(ret) <= 2
        /\ \A i \in 1..Len(ret) :
              /\ lower(ret[i]) = ret[i]
              /\ strip(ret[i]) = ret[i]
              /\ ~ \E ext \in file_extensions : endswith(ret[i], "." \o ext)
              /\ ~ \E pat \in test_patterns : startswith(ret[i], pat)
        /\ \A i, j \in 1..Len(ret) : i # j => ret[i] # ret[j]

\* three valid candidates of which two differ only by case and blanks, a file name
\* and a placeholder among them: the list is cut to two distinct entries
C2_Witness ==
    /\ fn = "clean_emails" /\ called
    /\ Len(arg) = 3
    /\ arg[1] = "Info@Acme.com" /\ arg[2] = " info@acme.com " /\ arg[3] = "sales@acme.com"
    /\ ret = <<"info@acme.com", "sales@acme.com">>

----------------------------------------------------------------------------
(* urllib.parse.urlsplit, as far as normalize_url and urljoin use it *)

scheme_chars == LowerChars \o UpperChars \o DigitChars \o "+-."

\* str.find: the first index (from 1) of character c in s at or after position from, 0 if none
Find(s, c, from) ==
    IF \E i \in from..Len(s) : Char(s, i) = c
    THEN CHOOSE i \in from..Len(s) : Char(s, i) = c /\ \A j \in from..(i - 1) : Char(s, j) # c
    ELSE 0

\* the length of "<scheme>:" at the start of url, 0 when url has no scheme
SchemeLen(url) ==
    LET i == Find(url, ":", 1)
    IN  IF i > 1 /\ \A j \in 1..(i - 1) : Contains(scheme_chars, Char(url, j)) THEN i ELSE 0

\* _splitnetloc: the index after the netloc that starts at position start
NetlocEnd(url, start) ==
    LET stops == {i \in start..Len(url) : Char(url, i) \in {"/", "?", "#"}}
    IN  IF stops = {} THEN Len(url) + 1
        ELSE CHOOSE i \in stops : \A j \in stops : i <= j

\* urlparse(url).netloc, or ValueError("Invalid IPv6 URL")
Netloc(url) ==
    LET k == SchemeLen(url)
        rest == SubSeq(url, k + 1, Len(url))
    IN  IF ~startswith(rest, "//") THEN Ret("")
        ELSE LET netloc == SubSeq(rest, 3, NetlocEnd(rest, 3) - 1)
             IN  IF Contains(netloc, "[") # Contains(netloc, "]")
                 THEN Raise("ValueError")
                 ELSE Ret(netloc)

\* urljoin(base, path) for the paths of pages_to_check: "" keeps the base, an
\* absolute path replaces everything after the base's netloc
urljoin(base, path) ==
    IF path = "" THEN base
    ELSE LET k == SchemeLen(base)
             rest == SubSeq(base, k + 1, Len(base))
         IN  IF startswith(rest, "//")
             THEN SubSeq(base, 1, k + NetlocEnd(rest, 3) - 1) \o path
             ELSE SubSeq(base, 1, k) \o path

----------------------------------------------------------------------------
(* normalize_url *)

\* a CSV cell as pandas hands it over: a str, the float NaN of an empty cell, or
\* the number of a numeric column
Str(s) == [type |-> "str", v |-> s]
NaN == [type |-> "float", v |-> "nan"]
Num(s) == [type |-> "int", v |-> s]

\* pd.isna(url)
isna(cell) == cell.type = "float" /\ cell.v = "nan"

RECURSIVE rstrip_slash(_)
rstrip_slash(s) ==
    IF Len(s) > 0 /\ Char(s, Len(s)) = "/" THEN rstrip_slash(SubSeq(s, 1, Len(s) - 1)) ELSE s

\* url.strip().rstrip('/')
Trimmed(s) == rstrip_slash(strip(s))

\* if not url.startswith("http"): url = "http://" + url
WithScheme(url) == IF startswith(url, "http") THEN url ELSE "http://" \o url

\* the try block: the ValueError of urlparse is caught
Validated(url) ==
    LET netloc == Netloc(url)
    IN  IF netloc.kind = "raise" THEN None
        ELSE IF netloc.val = "" THEN None
        ELSE Ret(url)

normalize_url(cell) ==
    IF isna(cell) THEN None
    ELSE IF cell.type # "str" THEN Raise("AttributeError")   \* url.strip() of a number
    ELSE IF strip(cell.v) = "" THEN None
    ELSE Validated(WithScheme(Trimmed(cell.v)))

----------------------------------------------------------------------------
(* Inputs of normalize_url *)

UrlPrefixes == {"", " ", "http://", "https://"}
UrlCores == {"", "example.com", "httpbin.org", "a.b", "[::1", "shop.io/menu"}
UrlSuffixes == {"", "/", "//", " ", "/ "}

WebsiteCells ==
    {Str(pre \o core \o suf) : pre \in UrlPrefixes, core \in UrlCores, suf \in UrlSuffixes}
        \cup {NaN, Num("12345")}

InitNormalize ==
    /\ fn = "normalize_url"
    /\ arg \in WebsiteCells
    /\ ret = None
    /\ called = FALSE
    /\ NotRunning

CallNormalize ==
    /\ fn = "normalize_url"
    /\ ~called
    /\ ret' = normalize_url(arg)
    /\ called' = TRUE
    /\ UNCHANGED <<fn, arg, world, batch, locals, runs>>

SpecNormalize == InitNormalize /\ [][CallNormalize]_vars

\* what the claim calls a scheme prefix: "<scheme>://" at the start
HasSchemePrefix(s) ==
    LET k == SchemeLen(s) IN k > 0 /\ startswith(SubSeq(s, k + 1, Len(s)), "//")

\* the trimmed input with a single trailing slash removed, "http://" prepended
\* exactly when it has no scheme prefix
ClaimedUrl(s) ==
    LET t == strip(s)
        u == IF endswith(t, "/") THEN SubSeq(t, 1, Len(t) - 1) ELSE t
    IN  IF HasSchemePrefix(t) THEN u ELSE "http://" \o u

ClaimedInvalid(cell) ==
    \/ isna(cell)
    \/ strip(cell.v) = ""
    \/ Netloc(ClaimedUrl(cell.v)) \in {Ret(""), Raise("ValueError")}

\* C6: normalize_url never raises; it returns None exactly when the input is empty
\* after trimming or the resulting URL has no host; otherwise it returns the
\* trimmed input less a single trailing slash, with "http://" prepended exactly
\* when the input has no scheme prefix.
C6_NormalizeContract ==
    (fn = "normalize_url" /\ called) =>
        /\ ret.kind # "raise"
        /\ (ret = None) <=> ClaimedInvalid(arg)
        /\ ret.kind = "value" => ret.val = ClaimedUrl(arg.v)

----------------------------------------------------------------------------
(* fetch_page_content *)

\* what requests.get(url, ...) does: raises, or hands back a response
Raised(e) == [kind |-> "exception", exc |-> e, status_code |-> 0, text |-> <<>>]
Response(code, body) == [kind |-> "response", exc |-> "", status_code |-> code, text |-> body]

\* the subclasses of requests.RequestException among the exceptions drawn
RequestException == {"Timeout", "ConnectionError", "TooManyRedirects", "HTTPError"}

\* except requests.RequestException
Caught(exc) == exc \in RequestException

ErrorStatus_non2xx(code) == code < 200 \/ code >= 300

\* response.raise_for_status() raises HTTPError for a 4xx or 5xx status
ErrorStatus(code) == 400 <= code /\ code < 600

fetch_page_content(got) ==
    IF got.kind = "exception"
    THEN IF Caught(got.exc) THEN None ELSE Raise(got.exc)
    ELSE IF ErrorStatus(got.status_code) THEN None
    ELSE Ret(got.text)

\* the calls that reach the outside world, with the row they are made for
Get(row, url) == [ev |-> "get", row |-> row, url |-> url]
Sleep(row) == [ev |-> "sleep", row |-> row, url |-> ""]

----------------------------------------------------------------------------
(* Inputs of fetch_page_content *)

Exceptions == RequestException \cup {"UnicodeError"}
StatusCodes == {200, 204, 300, 304, 404, 429, 500, 503, 999}
Bodies == {<<"Contact", "info@acme.com">>, <<"Request", "denied">>, <<"Moved">>}
FetchUrls == {"http://example.com", "http://example.com/contact", "https://a.b/about"}

Transports ==
    {Raised(e) : e \in Exceptions} \cup
    {Response(code, body) : code \in StatusCodes, body \in Bodies}

InitFetch ==
    /\ fn = "fetch_page_content"
    /\ arg \in [url : FetchUrls, got : Transports]
    /\ ret = None
    /\ called = FALSE
    /\ NotRunning

CallFetch ==
    /\ fn = "fetch_page_content"
    /\ ~called
    /\ trace' = Append(trace, Get(0, arg.url))
    /\ ret' = fetch_page_content(arg.got)
    /\ called' = TRUE
    /\ UNCHANGED <<fn, arg, site, written, log, batch, locals, runs>>

SpecFetch == InitFetch /\ [][CallFetch]_vars

Is2xx(code) == 200 <= code /\ code < 300

\* C3 as stated: one GET; None on any network error, timeout or non-2xx status;
\* the body only when the request succeeded with a 2xx status.
C3_NoneUnless2xx ==
    (fn = "fetch_page_content" /\ called /\ ret.kind # "raise") =>
        /\ trace = <<Get(0, arg.url)>>
        /\ (arg.got.kind = "exception" \/ ~Is2xx(arg.got.status_code)) => ret = None
        /\ ret.kind = "value" =>
              arg.got.kind = "response" /\ Is2xx(arg.got.status_code) /\ ret.val = arg.got.text

\* C3 amended: one GET; None when the request raises a RequestException (network
\* error, timeout) or the response status is 4xx or 5xx; the response body for
\* every other status, 2xx or not.
C3_NoneOnErrorStatus ==
    (fn = "fetch_page_content" /\ called) =>
        /\ trace = <<Get(0, arg.url)>>
        /\ (arg.got.kind = "exception" /\ arg.got.exc \in RequestException) => ret = None
        /\ (arg.got.kind = "response" /\ arg.got.status_code \in 400..599) => ret = None
        /\ (arg.got.kind = "response" /\ arg.got.status_code \notin 400..599) =>
              ret = Ret(arg.got.text)

\* a response with a status outside 2xx that raise_for_status lets through
C3_Witness ==
    /\ fn = "fetch_page_content" /\ called
    /\ arg.got.kind = "response" /\ arg.got.status_code = 999
    /\ arg.got.text # <<>>
    /\ ret = Ret(arg.got.text)

----------------------------------------------------------------------------
(* extract_emails_from_html, extract_social_links                          *)
(*                                                                         *)
(* A page is the sequence of its runs of characters free of blanks, quotes *)
(* and angle brackets; in the pages drawn below a run is an address, a     *)
(* link or a word.                                                         *)

LocalChars == LowerChars \o UpperChars \o DigitChars \o "._%+-"
DomainChars == LowerChars \o UpperChars \o DigitChars \o ".-"
Letters == LowerChars \o UpperChars

AllIn(s, chars) == \A i \in 1..Len(s) : Contains(chars, Char(s, i))

\* the run matches email_pattern: local part, "@", domain, ".", two or more letters
IsEmail(tok) ==
    \E a \in 2..Len(tok), d \in 1..Len(tok) :
        /\ Char(tok, a) = "@" /\ Char(tok, d) = "." /\ d > a + 1
        /\ AllIn(SubSeq(tok, 1, a - 1), LocalChars)
        /\ AllIn(SubSeq(tok, a + 1, d - 1), DomainChars)
        /\ AllIn(SubSeq(tok, d + 1, Len(tok)), Letters)
        /\ Len(tok) - d >= 2

\* re.findall(email_pattern, html, re.IGNORECASE)
extract_emails_from_html(html) == SelectSeq(html, IsEmail)

\* the domains of social_patterns, in their order
social_domains == <<"facebook.com", "linkedin.com", "instagram.com", "twitter.com", "x.com">>

\* the pattern https?://(www\.)?<domain>/[^"'\s>]+ matches at position i of the run
MatchesAt(tok, i, domain) ==
    /\ Char(tok, i) \in {"h", "H"}
    /\ \E scheme \in {"http://", "https://"}, www \in {"", "www."} :
          LET prefix == scheme \o www \o domain \o "/"
              rest == lower(SubSeq(tok, i, Len(tok)))
          IN  startswith(rest, prefix) /\ Len(rest) > Len(prefix)

Matches(tok, domain) == \E i \in 1..Len(tok) : MatchesAt(tok, i, domain)

\* re.search(pattern, html, re.IGNORECASE): the leftmost match, "" for no match
Search(html, domain) ==
    IF \E k \in 1..Len(html) : Matches(html[k], domain)
    THEN LET k == CHOOSE k \in 1..Len(html) :
                      Matches(html[k], domain) /\ \A j \in 1..(k - 1) : ~Matches(html[j], domain)
             i == CHOOSE i \in 1..Len(html[k]) :
                      MatchesAt(html[k], i, domain) /\ \A j \in 1..(i - 1) : ~MatchesAt(html[k], j, domain)
         IN  SubSeq(html[k], i, Len(html[k]))
    ELSE ""

\* the for loop over social_patterns from pattern n on
RECURSIVE SocialFrom(_, _)
SocialFrom(html, n) ==
    IF n > Len(social_domains) THEN ""
    ELSE IF Search(html, social_domains[n]) # "" THEN Search(html, social_domains[n])
    ELSE SocialFrom(html, n + 1)

extract_social_links(html) == SocialFrom(html, 1)

----------------------------------------------------------------------------
(* process_csv: the result record and the sort *)

Row(name, website) == [name |-> name, website |-> website]

HasContact_emails_only(emails, social) == IF emails # <<>> THEN "Yes" ELSE "No"

\* 'Yes' if emails or social else 'No'
HasContact(emails, social) == IF emails # <<>> \/ social # "" THEN "Yes" ELSE "No"

\* result = {...}
Result(row, emails, social) ==
    [name |-> row.name,
     website |-> row.website,
     primary |-> IF Len(emails) > 0 THEN emails[1] ELSE "",
     secondary |-> IF Len(emails) > 1 THEN emails[2] ELSE "",
     social |-> social,
     found |-> Len(emails),
     has |-> HasContact(emails, social)]

\* the characters of the names in code point order
CodePoints == " " \o DigitChars \o UpperChars \o LowerChars

\* str < str: by code point, a proper prefix first
RECURSIVE StrLess(_, _)
StrLess(a, b) ==
    IF b = "" THEN FALSE
    ELSE IF a = "" THEN TRUE
    ELSE IF Char(a, 1) = Char(b, 1) THEN StrLess(SubSeq(a, 2, Len(a)), SubSeq(b, 2, Len(b)))
    ELSE Find(CodePoints, Char(a, 1), 1) < Find(CodePoints, Char(b, 1), 1)

SortKey_name_only(r) == <<FALSE, r.name>>

\* key=lambda x: (x['Primary Email'] == '', x['Business Name'])
SortKey(r) == <<r.primary = "", r.name>>

\* tuple < tuple, False < True
KeyLess(k1, k2) == IF k1[1] # k2[1] THEN ~k1[1] ELSE StrLess(k1[2], k2[2])

\* list with r put before its first element of greater key
RECURSIVE Inserted(_, _)
Inserted(list, r) ==
    IF list = <<>> THEN <<r>>
    ELSE IF KeyLess(SortKey(r), SortKey(Head(list))) THEN <<r>> \o list
    ELSE <<Head(list)>> \o Inserted(Tail(list), r)

\* sorted(list, key=...): stable
RECURSIVE sorted(_)
sorted(list) ==
    IF list = <<>> THEN <<>>
    ELSE Inserted(sorted(SubSeq(list, 1, Len(list) - 1)), list[Len(list)])

Info(msg, n) == [level |-> "info", msg |-> msg, n |-> n]
Error(msg) == [level |-> "error", msg |-> msg, n |-> 0]

----------------------------------------------------------------------------
(* The rows, the sites and the runs *)

MaxRows == 2

Names == {"Beta", "acme"}

\* the Website cells: a site, a site whose name starts with "http", an empty
\* cell, a number
SiteCells == {Str("example.com/"), Str("httpbin.org"), NaN, Num("12345")}

Html1 ==
    <<"Contact", "Info@Acme.com", "hr@acme.com",
      "https://www.linkedin.com/company/acme", "href=https://Facebook.com/acme">>
Html2 == <<"info@acme.com", "logo@2x.png", "sales@acme.com", "https://box.com/acme">>
Html3 == <<"Welcome", "test@acme.com", "https://twitter.com/acme">>

\* what requests.get may do when any site may answer anything
AnyTransport ==
    {Raised("Timeout"), Raised("ConnectionError"), Raised("UnicodeError"),
     Response(404, Html3), Response(200, Html1), Response(200, Html3)}

\* what a given site does for one page
SiteTransport ==
    {Raised("ConnectionError"), Response(200, Html1), Response(200, Html2), Response(200, Html3)}

\* list(all_emails): a set of str iterates in an order that depends on the
\* hash seed of the process
RECURSIVE Orders(_)
Orders(S) ==
    IF S = {} THEN {<<>>}
    ELSE UNION {{<<x>> \o rest : rest \in Orders(S \ {x})} : x \in S}

Elements(list) == {list[i] : i \in 1..Len(list)}

pages_to_check_legacy == <<"", "/contact", "/about">>

pages_to_check == <<"", "/contact", "/about", "/contact-us">>

Started ==
    /\ fn = "" /\ arg = <<>> /\ ret = None /\ called = FALSE
    /\ trace = <<>> /\ written = <<>> /\ log = <<>>
    /\ pc = "loop" /\ rows = <<>> /\ results = <<>> /\ results_sorted = <<>>
    /\ base_url = "" /\ path_i = 0 /\ htmls = <<>> /\ all_emails = {} /\ social_link = ""
    /\ run = 1 /\ first = <<>>

\* process_csv on any input with the required columns and at most MaxRows rows
Init ==
    /\ Started
    /\ site = <<>>
    /\ total \in 0..MaxRows

\* process_csv on one row, the site's four pages fixed
InitTwice ==
    /\ Started
    /\ site \in [1..Len(pages_to_check) -> SiteTransport]
    /\ total = 1

----------------------------------------------------------------------------
(* process_csv and extract_contacts, step by step *)

\* normalize_url of the cells drawn, computed once
BaseOf == [website \in SiteCells |-> normalize_url(website)]

\* for index, row in df.iterrows(): the next row, and extract_contacts up to its
\* first fetch: an invalid website returns [], '' at once, and the record is built
NextRow ==
    /\ pc = "loop"
    /\ Len(rows) < total
    /\ \E name \in Names, website \in SiteCells :
          LET row == Row(name, website)
              base == BaseOf[website]
          IN  /\ run = 2 => row = first.rows[Len(rows) + 1]
              /\ rows' = Append(rows, row)
              /\ IF base.kind = "raise"
                 THEN pc' = "raised" /\ UNCHANGED <<results, base_url, path_i>>
                 ELSE IF base.kind = "none"
                 THEN /\ pc' = "loop"
                      /\ results' = Append(results, Result(row, <<>>, ""))
                      /\ UNCHANGED <<base_url, path_i>>
                 ELSE /\ pc' = "fetch"
                      /\ base_url' = base.val
                      /\ path_i' = 1
                      /\ UNCHANGED results
    /\ UNCHANGED <<fvars, world, total, results_sorted, htmls, all_emails, social_link, runs>>

\* the scans of the pages drawn, computed once
Pages == {Html1, Html2, Html3}
EmailsIn == [html \in Pages |-> extract_emails_from_html(html)]
SocialIn == [html \in Pages |-> extract_social_links(html)]

Scanned_overwrite(html) ==
    /\ all_emails' = all_emails \cup Elements(EmailsIn[html])
    /\ social_link' = SocialIn[html]

\* if html: ...
Scanned(html) ==
    /\ all_emails' = all_emails \cup Elements(EmailsIn[html])
    /\ social_link' = IF social_link = "" THEN SocialIn[html] ELSE social_link

\* urljoin(base_url, path) for the bases and the paths there are, computed once
Bases == {BaseOf[website].val : website \in {w \in SiteCells : BaseOf[w].kind = "value"}}
FullUrl == [base \in Bases |-> [i \in 1..Len(pages_to_check) |-> urljoin(base, pages_to_check[i])]]

\* full_url = urljoin(base_url, path); html = self.fetch_page_content(full_url)
Fetch ==
    /\ pc = "fetch"
    /\ \E got \in (IF site = <<>> THEN AnyTransport ELSE {site[path_i]}) :
          LET html == fetch_page_content(got)
          IN  /\ trace' = Append(trace, Get(Len(rows), FullUrl[base_url][path_i]))
              /\ IF html.kind = "raise"
                 THEN pc' = "raised" /\ UNCHANGED <<htmls, all_emails, social_link>>
                 ELSE /\ pc' = "sleep"
                      /\ htmls' = Append(htmls, html)
                      /\ IF html.kind = "value" /\ html.val # <<>>
                         THEN Scanned(html.val)
                         ELSE UNCHANGED <<all_emails, social_link>>
    /\ UNCHANGED <<fvars, site, written, log, total, rows, results, results_sorted,
                   base_url, path_i, runs>>

\* time.sleep(self.delay), and on to the next page
Pause ==
    /\ pc = "sleep"
    /\ trace' = Append(trace, Sleep(Len(rows)))
    /\ IF path_i < Len(pages_to_check)
       THEN pc' = "fetch" /\ path_i' = path_i + 1
       ELSE pc' = "clean" /\ UNCHANGED path_i
    /\ UNCHANGED <<fvars, site, written, log, total, rows, results, results_sorted,
                   base_url, htmls, all_emails, social_link, runs>>

\* clean_emails of every order of every set of addresses the pages hold, computed once
PageEmails == UNION {Elements(EmailsIn[html]) : html \in Pages}
Cleaned == [order \in UNION {Orders(S) : S \in SUBSET PageEmails} |-> clean_emails(order)]

\* cleaned_emails = self.clean_emails(list(all_emails)); extract_contacts returns,
\* its locals are gone, the record is built and appended
Finish ==
    /\ pc = "clean"
    /\ \E order \in Orders(all_emails) :
          results' = Append(results, Result(rows[Len(rows)], Cleaned[order], social_link))
    /\ pc' = "loop"
    /\ base_url' = "" /\ path_i' = 0 /\ htmls' = <<>> /\ all_emails' = {} /\ social_link' = ""
    /\ UNCHANGED <<fvars, world, total, rows, results_sorted, runs>>

\* results_sorted = sorted(results, key=...)
EndLoop ==
    /\ pc = "loop"
    /\ Len(rows) = total
    /\ results_sorted' = sorted(results)
    /\ pc' = "save"
    /\ UNCHANGED <<fvars, world, total, rows, results, locals, runs>>

\* sum(1 for r in results if r['Primary Email']), ... if r['Social Media'])
WithEmail(r) == r.primary # ""
WithSocial(r) == r.social # ""

\* the lines of the summary up to the first percentage
SummaryHead ==
    <<Info("Extraction completed successfully!", 0), Info("Results saved to", 0),
      Info("Total businesses processed", total)>>

\* with_emails/total*100 raises ZeroDivisionError for an empty table
SummaryTail ==
    IF total = 0 THEN <<Error("Error saving results")>>
    ELSE <<Info("Businesses with emails", Len(SelectSeq(results, WithEmail))),
           Info("Businesses with social media", Len(SelectSeq(results, WithSocial)))>>

\* the try block: to_csv writes the file or raises, then the summary is logged
Save ==
    /\ pc = "save"
    /\ \E ok \in BOOLEAN :
          IF ok
          THEN /\ written' = Append(written, results_sorted)
               /\ log' = log \o SummaryHead \o SummaryTail
          ELSE /\ log' = Append(log, Error("Error saving results"))
               /\ UNCHANGED written
    /\ pc' = "done"
    /\ UNCHANGED <<fvars, site, trace, total, rows, results, results_sorted, locals, runs>>

\* the program is started again on the same file
Rerun ==
    /\ pc = "done"
    /\ run = 1
    /\ run' = 2
    /\ first' = [rows |-> rows, results |-> results, written |-> written]
    /\ trace' = <<>> /\ written' = <<>> /\ log' = <<>>
    /\ pc' = "loop" /\ rows' = <<>> /\ results' = <<>> /\ results_sorted' = <<>>
    /\ base_url' = "" /\ path_i' = 0 /\ htmls' = <<>> /\ all_emails' = {} /\ social_link' = ""
    /\ UNCHANGED <<fvars, site, total>>

Next == NextRow \/ Fetch \/ Pause \/ Finish \/ EndLoop \/ Save

Spec == Init /\ [][Next]_vars

NextTwice == Next \/ Rerun

SpecTwice == InitTwice /\ [][NextTwice]_vars

----------------------------------------------------------------------------
(* Claims about process_csv *)

Ended == pc \in {"done", "raised"}

\* C1: a failure while handling one business never aborts the batch: whatever each
\* fetch and each normalization does, every row yields exactly one record and the
\* output write is reached.
C1_NeverAborts ==
    Ended => pc = "done" /\ Len(results) = total

HasError == \E i \in 1..Len(log) : log[i].level = "error"

HasInfo(msg, n) == \E i \in 1..Len(log) : log[i] = Info(msg, n)

\* C7: for any number of rows, zero included, the sorted list is written once,
\* after all rows are processed, then the summary counts are logged; a save error
\* is reported only when the write itself failed.
C7_WriteThenSummary ==
    /\ pc # "done" => written = <<>> /\ log = <<>>
    /\ pc = "done" =>
          /\ HasError => written = <<>>
          /\ written # <<>> =>
                /\ written = <<sorted(results)>>
                /\ Len(results) = total
                /\ HasInfo("Total businesses processed", total)
                /\ \E n \in 0..total : HasInfo("Businesses with emails", n)
                /\ \E n \in 0..total : HasInfo("Businesses with social media", n)

SameGroup(r1, r2) == (r1.primary = "") = (r2.primary = "")

\* C5: the output is a permutation of the records built from the rows; every record
\* with a primary email precedes every record without one; within each group the
\* names ascend; records of equal key keep their input order.
C5_SortedOutput ==
    pc \in {"save", "done"} =>
        /\ written \in {<<>>, <<results_sorted>>}
        /\ Len(results_sorted) = Len(results)
        /\ \E perm \in Orders(1..Len(results)) :
              /\ \A i \in 1..Len(results) : results_sorted[i] = results[perm[i]]
              /\ \A i, j \in 1..Len(results) :
                    i < j =>
                        LET a == results_sorted[i]
                            b == results_sorted[j]
                        IN  /\ b.primary # "" => a.primary # ""
                            /\ SameGroup(a, b) => ~StrLess(b.name, a.name)
                            /\ (SameGroup(a, b) /\ a.name = b.name) => perm[i] < perm[j]

\* the output is written with a record without email moved behind a later record
\* with one
C5_Witness ==
    /\ pc = "done" /\ written = <<results_sorted>>
    /\ Len(results) = 2
    /\ results[1].primary = "" /\ results[1].name = "Beta"
    /\ results[2].primary # "" /\ results[2].name = "acme"
    /\ results_sorted = <<results[2], results[1]>>

Empty(r) ==
    /\ r.primary = "" /\ r.secondary = "" /\ r.social = "" /\ r.found = 0 /\ r.has = "No"

\* C9: every record has Has Contact = "Yes" exactly when Emails Found > 0 or Social
\* Media is non-empty; a business whose every page fetch returns no content gets
\* empty emails, empty social, Emails Found = 0 and Has Contact = "No".
C9_HasContact ==
    /\ [](\A i \in 1..Len(results) :
             /\ results[i].has \in {"Yes", "No"}
             /\ results[i].has = "Yes" <=> (results[i].found > 0 \/ results[i].social # ""))
    /\ [][(pc = "clean" /\ \A k \in 1..Len(htmls) : htmls[k] = None)
             => Empty(results'[Len(results')])]_vars

\* a site none of whose pages could be fetched, after a site with a social link and
\* no address
C9_Witness ==
    /\ pc = "done"
    /\ Len(results) = 2
    /\ results[1].has = "Yes" /\ results[1].found = 0 /\ results[1].social # ""
    /\ results[2].has = "No" /\ results[2].website = Str("example.com/")
    /\ Len(trace) = 16

C10_Paths == <<"", "/contact", "/about", "/contact-us">>

C10_Urls == [base \in Bases |-> [i \in 1..4 |-> urljoin(base, C10_Paths[i])]]

\* the calls extract_contacts is to make for row i
C10_Calls(i) ==
    LET base == BaseOf[rows[i].website]
    IN  IF base.kind # "value" THEN <<>>
        ELSE <<Get(i, C10_Urls[base.val][1]), Sleep(i), Get(i, C10_Urls[base.val][2]), Sleep(i),
               Get(i, C10_Urls[base.val][3]), Sleep(i), Get(i, C10_Urls[base.val][4]), Sleep(i)>>

RECURSIVE C10_CallsUpTo(_)
C10_CallsUpTo(n) == IF n = 0 THEN <<>> ELSE C10_CallsUpTo(n - 1) \o C10_Calls(n)

----------------------------------------------------------------------------
(* Claims about two runs on the same site *)

\* the social scan of page k of the site
PageSocial(k) ==
    LET html == fetch_page_content(site[k])
    IN  IF html.kind = "value" /\ html.val # <<>> THEN SocialIn[html.val] ELSE ""

\* the scan of the first of the first n pages that has a match
FirstMatch(n) ==
    IF \E k \in 1..n : PageSocial(k) # ""
    THEN PageSocial(CHOOSE k \in 1..n : PageSocial(k) # "" /\ \A j \in 1..(k - 1) : PageSocial(j) = "")
    ELSE ""

Fetched(i) == BaseOf[rows[i].website].kind = "value"

\* C8: the social link returned is the scan of the first page, in the order of the
\* four paths, whose fetch returned content with a match; once set no later page
\* changes it; it is empty exactly when no fetched page has a match.
C8_FirstSocialWins ==
    /\ [](pc \in {"fetch", "sleep", "clean"} => social_link = FirstMatch(Len(htmls)))
    /\ [](\A i \in 1..Len(results) :
             results[i].social = IF Fetched(i) THEN FirstMatch(4) ELSE "")
    /\ [][(pc \in {"fetch", "sleep"} /\ social_link # "") => social_link' = social_link]_vars

\* a page without a match, then a page with a match, then a page with another one
C8_Witness ==
    /\ pc = "done"
    /\ site[1] = Response(200, Html2) /\ site[2] = Response(200, Html1)
    /\ site[3] = Response(200, Html3)
    /\ Len(results) = 1
    /\ results[1].social = "https://Facebook.com/acme"

\* C4: two runs on the same rows and the same fetched pages yield the same records,
\* also when more than two valid distinct addresses were found.
C4_SameRecords ==
    (run = 2 /\ pc = "done") => results = first.results

====
